---- MODULE Spec2Model ----
(***************************************************************************)
(* Model of the hearmate server's streaming transcription pipeline:        *)
(* ASRProcessor (server/app/asr.py) and the endpoints of                   *)
(* server/app/main.py that drive it.                                       *)
(*                                                                         *)
(* Sample arrays are kept run-length encoded: an array is a sequence of    *)
(* blocks [src, n], n consecutive samples decoded from fragment src.       *)
(* np.concatenate is concatenation of block sequences and len() is the     *)
(* sum of the block lengths, so the real threshold of 80000 samples is     *)
(* kept.                                                                   *)
(*                                                                         *)
(* All handlers run on one asyncio event loop.  _decode_audio and          *)
(* _transcribe_buffer contain no suspension point (subprocess.run and      *)
(* model.transcribe block the loop), so one call of                        *)
(* push_audio_chunk_and_get_events is one atomic step; a handler can be    *)
(* interleaved with others only at receive_bytes and send_json.            *)
(***************************************************************************)
EXTENDS Integers, Sequences, FiniteSets, TLC

VARIABLES
    audio_buffer,   \* ASR.audio_buffer (asr.py:24), run-length encoded
    chunk_count,    \* ASR.chunk_count (asr.py:25)
    scratch,        \* the two fixed scratch files of _decode_audio
    pc,             \* per connection: position in websocket_endpoint
    outbox,         \* per connection: events of the for loop not yet sent
    arrivals,       \* history: arrays appended since the buffer was last empty
    last,           \* history: what the last push call did
    inflight,       \* model.transcribe calls that have begun and not ended
    decoding,       \* _decode_audio calls that have begun and not ended
    letters_dir,    \* names of the files in the letter_signs directory
    available_letters,  \* GIF_GENERATOR.available_letters: letter -> file name
    gifs_on_disk,   \* GIF files written so far, each a directory and a name
    cwd,            \* working directory of the server process
    now,            \* datetime.now(), in seconds
    issued,         \* history: file names returned in success descriptors
    response        \* history: the answer to the last HTTP request recorded

asrVars == <<audio_buffer, chunk_count, scratch, pc, outbox, arrivals, last, inflight, decoding>>
genVars == <<letters_dir, available_letters, gifs_on_disk, cwd, now, issued>>
vars == <<asrVars, genVars, response>>

-----------------------------------------------------------------------------
(* Bounds of the model *)

\* fragments with at least one byte accepted over the whole run
MaxChunks == 2
\* length of the longest exception message the engine raises
LongMsgLen == 120
\* number of WebSocket connections
NumConns == 2

-----------------------------------------------------------------------------
(* Program constants *)

sample_rate == 16000
FlushSeconds == 5
InnerErrChars == 50
WavRate == 16000

Threshold == sample_rate * FlushSeconds

-----------------------------------------------------------------------------
(* Inputs *)

Conns == 1..NumConns
\* the caller of a push that is not a connection: POST /transcribe
Http == 0

\* Audio fragments as received.  size is the number of bytes; container is
\* what the bytes are; frames is the number of 16 kHz frames the transcoder
\* produces from them.
Fragments ==
    { [id |-> 0, size |-> 0,    container |-> "none",    frames |-> 0],
      [id |-> 1, size |-> 7,    container |-> "garbage", frames |-> 0],
      [id |-> 2, size |-> 120,  container |-> "webm",    frames |-> 0],
      [id |-> 3, size |-> 4000, container |-> "webm",    frames |-> 40000],
      [id |-> 4, size |-> 9000, container |-> "webm",    frames |-> 100000] }

\* What the environment does to one run of the transcoder.
DecodeEnvs == {"ok", "timeout", "corrupt"}

RECURSIVE Rep(_, _)
Rep(c, n) == IF n = 0 THEN "" ELSE c \o Rep(c, n - 1)

\* What model.transcribe does on one call: it returns a result or raises.
EngineOutcomes ==
    { [raise |-> FALSE, text |-> t] : t \in {"", "  ", " hello world "} }
    \cup
    { [raise |-> TRUE, text |-> m] : m \in {"out of memory", Rep("e", LongMsgLen)} }

-----------------------------------------------------------------------------
(* Sample arrays *)

RECURSIVE BufLen(_)
BufLen(a) == IF a = <<>> THEN 0 ELSE Head(a).n + BufLen(Tail(a))

Block(src, n) == IF n = 0 THEN <<>> ELSE << [src |-> src, n |-> n] >>

Concatenate_Replace(a, b) == b
Concatenate(a, b) == a \o b

RECURSIVE Flatten(_)
Flatten(as) == IF as = <<>> THEN <<>> ELSE Head(as) \o Flatten(Tail(as))

\* a[:k]
RECURSIVE Take(_, _)
Take(a, k) ==
    IF a = <<>> \/ k <= 0 THEN <<>>
    ELSE IF Head(a).n <= k THEN <<Head(a)>> \o Take(Tail(a), k - Head(a).n)
    ELSE << [src |-> Head(a).src, n |-> k] >>

-----------------------------------------------------------------------------
(* Text *)

Min(a, b) == IF a <= b THEN a ELSE b

\* s[:k]
Truncate(s, k) == SubSeq(s, 1, Min(k, Len(s)))

IsSpace(s, i) == SubSeq(s, i, i) = " "

RECURSIVE LStrip(_)
LStrip(s) == IF Len(s) > 0 /\ IsSpace(s, 1) THEN LStrip(SubSeq(s, 2, Len(s))) ELSE s

RECURSIVE RStrip(_)
RStrip(s) ==
    IF Len(s) > 0 /\ IsSpace(s, Len(s)) THEN RStrip(SubSeq(s, 1, Len(s) - 1)) ELSE s

\* str.strip()
Strip(s) == RStrip(LStrip(s))

Event(type, text) == [type |-> type, text |-> text]

ListeningText(n) == "Listening... (" \o ToString(n) \o " chunks)"
ProcessingText == "Processing audio..."
NoSpeechText == "No speech detected"
TranscriptionErrorPrefix == "Transcription error: "

-----------------------------------------------------------------------------
(* ASRProcessor._parse_wav and ASRProcessor._decode_audio *)

\* No samples: the None that both functions return on failure.
None == [ok |-> FALSE, samples |-> <<>>]
Samples(a) == [ok |-> TRUE, samples |-> a]

\* Content of /tmp/audio_chunk.wav: missing or unreadable as a WAV file, or
\* a WAV file of `frames` frames at `rate` Hz transcoded from fragment src.
NoWav == [valid |-> FALSE, rate |-> 0, frames |-> 0, src |-> 0]
Wav(src, rate, frames) == [valid |-> TRUE, rate |-> rate, frames |-> frames, src |-> src]
NoFiles == [webm |-> -1, wav |-> NoWav]

\* librosa.resample: the output has ceil(n * target / orig) samples
ResampledLen(n, orig_sr) == (n * sample_rate + orig_sr - 1) \div orig_sr

parse_wav(wav) ==
    IF ~wav.valid THEN None     \* wave.open raises, caught at asr.py:124
    ELSE IF wav.rate # sample_rate
         THEN Samples(Block(wav.src, ResampledLen(wav.frames, wav.rate)))
         ELSE Samples(Block(wav.src, wav.frames))

\* subprocess.run(['ffmpeg', '-i', temp_path, ..., '-ar', '16000', '-y', wav_path],
\* timeout=10): its outcome and what it leaves in wav_path.
ffmpeg(frag, env, wav) ==
    IF env = "timeout" THEN [status |-> "timeout", wav |-> NoWav]
    ELSE IF frag.container # "webm" THEN [status |-> "nonzero", wav |-> wav]
    ELSE IF env = "corrupt" THEN [status |-> "zero", wav |-> NoWav]
    ELSE [status |-> "zero", wav |-> Wav(frag.id, WavRate, frag.frames)]

decode_audio_StaleOnTimeout(frag, env, files) ==
    LET run == ffmpeg(frag, env, files.wav)
        left == [webm |-> frag.id, wav |-> run.wav]
    IN  IF run.status = "timeout"
        THEN [result |-> parse_wav(files.wav), files |-> left, status |-> run.status]
        ELSE IF run.status = "nonzero"
        THEN [result |-> None, files |-> left, status |-> run.status]
        ELSE [result |-> parse_wav(run.wav), files |-> left, status |-> run.status]
decode_audio_NoReturncodeCheck(frag, env, files) ==
    LET run == ffmpeg(frag, env, files.wav)
        left == [webm |-> frag.id, wav |-> run.wav]
    IN  IF run.status = "timeout"
        THEN [result |-> None, files |-> left, status |-> run.status]
        ELSE [result |-> parse_wav(run.wav), files |-> left, status |-> run.status]
\* returns the decoded array (or None), the scratch files it leaves and how
\* the transcoder run ended.  A timeout makes subprocess.run raise
\* TimeoutExpired, which the handler of asr.py:97-99 turns into None.
decode_audio(frag, env, files) ==
    LET run == ffmpeg(frag, env, files.wav)
        left == [webm |-> frag.id, wav |-> run.wav]
    IN  IF run.status = "timeout"
        THEN [result |-> None, files |-> left, status |-> run.status]
        ELSE IF run.status = "nonzero"
        THEN [result |-> None, files |-> left, status |-> run.status]
        ELSE [result |-> parse_wav(run.wav), files |-> left, status |-> run.status]

-----------------------------------------------------------------------------
(* ASRProcessor._transcribe_buffer *)

\* asr.py:52
FlushDue_Strict(buf) == BufLen(buf) > Threshold
FlushDue(buf) == BufLen(buf) >= Threshold

\* the array handed to model.transcribe (asr.py:137-138)
EngineInput_Trimmed(buf) == Take(buf, Threshold)
EngineInput(buf) == buf

\* asr.py:146-149
AfterSpeech_Unstripped(buf, eng) ==
    [events |-> << Event("final", eng.text) >>, audio_buffer |-> <<>>]
AfterSpeech_TwoEvents(buf, eng) ==
    [events |-> << Event("interim", NoSpeechText), Event("final", Strip(eng.text)) >>,
     audio_buffer |-> <<>>]
AfterSpeech(buf, eng) ==
    [events |-> << Event("final", Strip(eng.text)) >>, audio_buffer |-> <<>>]

\* asr.py:150-153
AfterNoSpeech_KeepsBuffer(buf) ==
    [events |-> << Event("interim", NoSpeechText) >>, audio_buffer |-> buf]
AfterNoSpeech_Final(buf) ==
    [events |-> << Event("final", "") >>, audio_buffer |-> <<>>]
AfterNoSpeech(buf) ==
    [events |-> << Event("interim", NoSpeechText) >>, audio_buffer |-> <<>>]

\* asr.py:155-157
AfterEngineError_Untruncated(buf, eng) ==
    [events |-> << Event("interim", TranscriptionErrorPrefix \o eng.text) >>,
     audio_buffer |-> buf]
AfterEngineError(buf, eng) ==
    [events |-> << Event("interim",
                         TranscriptionErrorPrefix \o Truncate(eng.text, InnerErrChars)) >>,
     audio_buffer |-> buf]

\* eng is what model.transcribe does if it is called.  engine is the sequence
\* of arrays model.transcribe was called with.
transcribe_buffer(buf, eng) ==
    IF BufLen(buf) = 0
    THEN [events |-> <<>>, audio_buffer |-> buf, engine |-> <<>>]
    ELSE LET input == EngineInput(buf)
             out == IF eng.raise THEN AfterEngineError(buf, eng)
                    ELSE IF Strip(eng.text) # "" THEN AfterSpeech(buf, eng)
                    ELSE AfterNoSpeech(buf)
         IN  [events |-> out.events, audio_buffer |-> out.audio_buffer,
              engine |-> << input >>]

-----------------------------------------------------------------------------
(* ASRProcessor.push_audio_chunk_and_get_events *)

\* asr.py:35-37: the empty fragment returns before anything is touched
EmptyChunk_Counted(buf, count, files) ==
    [events |-> <<>>, audio_buffer |-> buf, chunk_count |-> count + 1,
     files |-> files, decodes |-> 0, decoded |-> None, engine |-> <<>>,
     status |-> "none", raised |-> FALSE]
EmptyChunk(buf, count, files) ==
    [events |-> <<>>, audio_buffer |-> buf, chunk_count |-> count,
     files |-> files, decodes |-> 0, decoded |-> None, engine |-> <<>>,
     status |-> "none", raised |-> FALSE]

\* asr.py:56-57: the decoder returned None
DecodeFailed_StatusEvent(buf) ==
    [events |-> << Event("status", ProcessingText) >>, audio_buffer |-> buf,
     engine |-> <<>>]
DecodeFailed_DropsBuffer(buf) ==
    [events |-> << Event("interim", ProcessingText) >>, audio_buffer |-> <<>>,
     engine |-> <<>>]
DecodeFailed(buf) ==
    [events |-> << Event("interim", ProcessingText) >>, audio_buffer |-> buf,
     engine |-> <<>>]

\* asr.py:54-55
BelowThreshold_BufferedOnly(buf, count) ==
    [events |-> << Event("interim", ListeningText(Len(buf))) >>, audio_buffer |-> buf,
     engine |-> <<>>]
BelowThreshold(buf, count) ==
    [events |-> << Event("interim", ListeningText(count)) >>, audio_buffer |-> buf,
     engine |-> <<>>]

\* asr.py:45-57, `appended` being the buffer after np.concatenate
AfterDecode_EmptyIsFailure(buf, count, dec, eng) ==
    IF dec.ok /\ dec.samples # <<>>
    THEN LET appended == Concatenate(buf, dec.samples)
         IN  IF FlushDue(appended) THEN transcribe_buffer(appended, eng)
             ELSE BelowThreshold(appended, count)
    ELSE DecodeFailed(buf)
AfterDecode(buf, count, dec, eng) ==
    IF dec.ok
    THEN LET appended == Concatenate(buf, dec.samples)
         IN  IF FlushDue(appended) THEN transcribe_buffer(appended, eng)
             ELSE BelowThreshold(appended, count)
    ELSE DecodeFailed(buf)

\* One call.  buf, count, files: the processor's state and the scratch files
\* before it; frag: audio_bytes; env: what happens to the transcoder run;
\* eng: what model.transcribe does if called.  Nothing in the try block
\* escapes _decode_audio's and _transcribe_buffer's own handlers, so the
\* handler of asr.py:59-61 is never entered and the call never raises:
\* `raised` says whether an exception leaves the call.
push_Unguarded(buf, count, files, frag, env, eng) ==
    IF frag.size = 0 THEN EmptyChunk(buf, count, files)
    ELSE LET n == count + 1
             d == decode_audio(frag, env, files)
             r == AfterDecode(buf, n, d.result, eng)
             escapes == d.status = "timeout" \/ (r.engine # <<>> /\ eng.raise)
         IN  [events |-> IF escapes THEN <<>> ELSE r.events,
              audio_buffer |-> r.audio_buffer,
              chunk_count |-> n, files |-> d.files, decodes |-> 1,
              decoded |-> d.result, engine |-> r.engine,
              status |-> d.status, raised |-> escapes]
push_audio_chunk_and_get_events(buf, count, files, frag, env, eng) ==
    IF frag.size = 0 THEN EmptyChunk(buf, count, files)
    ELSE LET n == count + 1
             d == decode_audio(frag, env, files)
             r == AfterDecode(buf, n, d.result, eng)
         IN  [events |-> r.events, audio_buffer |-> r.audio_buffer,
              chunk_count |-> n, files |-> d.files, decodes |-> 1,
              decoded |-> d.result, engine |-> r.engine,
              status |-> d.status, raised |-> FALSE]

-----------------------------------------------------------------------------
(* History variables *)

NoCall ==
    [caller |-> -1, frag |-> 0, size |-> 0, bufBefore |-> <<>>, countBefore |-> 0,
     arrivalsBefore |-> <<>>, decodes |-> 0, decoded |-> None, engine |-> <<>>,
     eng |-> [raise |-> FALSE, text |-> ""], events |-> <<>>,
     status |-> "none", raised |-> FALSE, nth |-> 0]

\* the record of a push by `caller`; the engine's outcome is recorded only
\* when the engine was called.  status is how the transcoder run of the call
\* ended, nth the number of calls with a non-empty fragment so far.
CallRecord(caller, frag, r, eng) ==
    [caller |-> caller, frag |-> frag.id, size |-> frag.size,
     bufBefore |-> audio_buffer, countBefore |-> chunk_count,
     arrivalsBefore |-> arrivals,
     decodes |-> r.decodes, decoded |-> r.decoded, engine |-> r.engine,
     eng |-> IF r.engine = <<>> THEN NoCall.eng ELSE eng,
     events |-> r.events,
     status |-> r.status, raised |-> r.raised,
     nth |-> last.nth + (IF frag.size > 0 THEN 1 ELSE 0)]

\* arrays appended since the buffer was last seen empty
ArrivalsAfter(r) ==
    IF r.audio_buffer = <<>> THEN <<>>
    ELSE IF r.decoded.ok THEN Append(arrivals, r.decoded.samples)
    ELSE arrivals

\* The inputs that can make a difference to a call: no transcoder run for an
\* empty fragment, and an engine outcome only if the engine is called.
EnvsFor(frag) == IF frag.size = 0 THEN {"ok"} ELSE DecodeEnvs
EnginesFor(buf, count, files, frag, env) ==
    IF push_audio_chunk_and_get_events(buf, count, files, frag, env, NoCall.eng).engine = <<>>
    THEN {NoCall.eng}
    ELSE EngineOutcomes

\* the state changes of one push made by `caller`
Pushed(caller, frag, r, eng) ==
    /\ audio_buffer' = r.audio_buffer
    /\ chunk_count' = r.chunk_count
    /\ scratch' = r.files
    /\ arrivals' = ArrivalsAfter(r)
    /\ last' = CallRecord(caller, frag, r, eng)

-----------------------------------------------------------------------------
(* main.py: the process-wide ASR object and the endpoints *)

\* main.py:35 and :55: every connection uses the one module-level ASR
BufferOf(c) == audio_buffer
CountOf(c) == chunk_count

\* no request answered yet
NoResponse == [endpoint |-> "none"]

\* main.py:35 and asr.py:21-27
InitAsr ==
    /\ audio_buffer = <<>>
    /\ chunk_count = 0
    /\ scratch = NoFiles
    /\ pc = [c \in Conns |-> "closed"]
    /\ outbox = [c \in Conns |-> <<>>]
    /\ arrivals = <<>>
    /\ last = NoCall
    /\ inflight = <<>>
    /\ decoding = <<>>
    /\ response = NoResponse

\* the server started in its own directory with an empty letter_signs
\* directory (main.py:20-22, :36)
ServerDir == "/srv/server"
Init ==
    /\ InitAsr
    /\ letters_dir = {}
    /\ available_letters = <<>>
    /\ gifs_on_disk = {}
    /\ cwd = ServerDir
    /\ now = 0
    /\ issued = {}

\* main.py:42
WsAccept(c) ==
    /\ pc[c] = "closed"
    /\ pc' = [pc EXCEPT ![c] = "receive"]
    /\ UNCHANGED <<audio_buffer, chunk_count, scratch, outbox, arrivals, last, inflight, decoding, genVars, response>>

\* main.py:55-58: the message is processed and the for loop is entered.  An
\* exception leaving the call would end the handler at main.py:63-68.
Process_SharedEvents(c, frag, env, eng) ==
    \E r \in { push_audio_chunk_and_get_events(
                   audio_buffer, chunk_count, scratch, frag, env, eng) } :
        /\ Pushed(c, frag, r, eng)
        /\ outbox' = [d \in Conns |-> IF pc[d] = "closed" THEN <<>> ELSE r.events]
        /\ pc' = [d \in Conns |-> IF pc[d] = "closed" \/ r.events = <<>>
                                  THEN pc[d] ELSE "send"]
        /\ UNCHANGED <<inflight, decoding, genVars, response>>
Process(c, frag, env, eng) ==
    \E r \in { push_audio_chunk_and_get_events(
                   audio_buffer, chunk_count, scratch, frag, env, eng) } :
        /\ Pushed(c, frag, r, eng)
        /\ outbox' = [outbox EXCEPT ![c] = r.events]
        /\ pc' = [pc EXCEPT ![c] = IF r.raised THEN "closed"
                                   ELSE IF r.events = <<>> THEN "receive"
                                   ELSE "send"]
        /\ UNCHANGED <<inflight, decoding, genVars, response>>

\* main.py:47-55: one message is received and processed
WsReceive(c) ==
    /\ pc[c] = "receive"
    /\ \E frag \in Fragments :
         IF frag.size = 0
         THEN UNCHANGED vars       \* main.py:49-50: continue
         ELSE /\ chunk_count < MaxChunks
              /\ \E env \in EnvsFor(frag) :
                 \E eng \in EnginesFor(audio_buffer, chunk_count, scratch, frag, env) :
                     Process(c, frag, env, eng)

\* main.py:58-59: one send_json of the for loop
WsSend_Deferred(c) ==
    /\ pc[c] = "send"
    /\ pc' = [pc EXCEPT ![c] = "receive"]
    /\ UNCHANGED <<audio_buffer, chunk_count, scratch, outbox, arrivals, last, inflight, decoding, genVars, response>>
WsSend(c) ==
    /\ pc[c] = "send"
    /\ outbox' = [outbox EXCEPT ![c] = Tail(@)]
    /\ pc' = [pc EXCEPT ![c] = IF Tail(outbox[c]) = <<>> THEN "receive" ELSE "send"]
    /\ UNCHANGED <<audio_buffer, chunk_count, scratch, arrivals, last, inflight, decoding, genVars, response>>

\* main.py:61-68: receive_bytes or send_json raises; the handler ends
WsDisconnect(c) ==
    /\ pc[c] \in {"receive", "send"}
    /\ pc' = [pc EXCEPT ![c] = "closed"]
    /\ outbox' = [outbox EXCEPT ![c] = <<>>]
    /\ UNCHANGED <<audio_buffer, chunk_count, scratch, arrivals, last, inflight, decoding, genVars, response>>

\* main.py:83-119: POST /transcribe.  A non-empty body is decoded once at
\* main.py:97 (the result is dropped) and again inside the push.  The
\* response's text field is the event list of the push, kept in last.events.
PostTranscribe_ProbeSetsBuffer ==
    \E body \in Fragments :
        /\ body.size > 0 => chunk_count < MaxChunks
        /\ \E env1 \in EnvsFor(body), env2 \in EnvsFor(body) :
             \E probe \in { decode_audio(body, env1, scratch) } :
             \E buf \in { IF body.size > 0 /\ probe.result.ok
                           THEN probe.result.samples ELSE audio_buffer } :
             \E files \in { IF body.size > 0 THEN probe.files ELSE scratch } :
             \E eng \in EnginesFor(buf, chunk_count, files, body, env2) :
             \E r \in { push_audio_chunk_and_get_events(
                            buf, chunk_count, files, body, env2, eng) } :
                 Pushed(Http, body, r, eng)
        /\ UNCHANGED <<pc, outbox, inflight, decoding, genVars, response>>
PostTranscribe ==
    \E body \in Fragments :
        /\ body.size > 0 => chunk_count < MaxChunks
        /\ \E env1 \in EnvsFor(body), env2 \in EnvsFor(body) :
             \E files \in { IF body.size > 0 THEN decode_audio(body, env1, scratch).files
                             ELSE scratch } :
             \E eng \in EnginesFor(audio_buffer, chunk_count, files, body, env2) :
             \E r \in { push_audio_chunk_and_get_events(
                            audio_buffer, chunk_count, files, body, env2, eng) } :
                 Pushed(Http, body, r, eng)
        /\ UNCHANGED <<pc, outbox, inflight, decoding, genVars, response>>

\* main.py:129-174: POST /upload-audio.  An empty file is answered with an
\* error at main.py:143.  For any other file main.py:148 calls
\* ASR._decode_audio_chunk, which ASRProcessor does not have: the
\* AttributeError is caught at main.py:172 and answered with an error, so
\* main.py:154-155 (which would replace the buffer) are never reached.
UploadAudio_Replaces ==
    \E content \in Fragments, env \in DecodeEnvs :
        \E d \in { decode_audio(content, env, scratch) } :
            /\ content.size > 0
            /\ d.result.ok /\ d.result.samples # <<>>
            /\ audio_buffer' = d.result.samples
            /\ scratch' = d.files
            /\ UNCHANGED <<chunk_count, pc, outbox, arrivals, last, inflight, decoding, genVars, response>>
UploadAudio ==
    \E content \in Fragments :
        /\ response' =
               [endpoint |-> "upload-audio", content |-> content.id,
                error |-> IF content.size = 0 THEN "File is empty"
                          ELSE "'ASRProcessor' object has no attribute '_decode_audio_chunk'",
                code |-> 400]
        /\ UNCHANGED <<asrVars, genVars>>

Next ==
    \/ \E c \in Conns : WsAccept(c)
    \/ \E c \in Conns : WsReceive(c)
    \/ \E c \in Conns : WsSend(c)
    \/ \E c \in Conns : WsDisconnect(c)
    \/ PostTranscribe

Spec == Init /\ [][Next]_vars

\* The same program with POST /upload-audio and its answers, for one
\* connection
UploadConns == {1}

UploadNext ==
    \/ \E c \in UploadConns : WsAccept(c)
    \/ \E c \in UploadConns : WsReceive(c)
    \/ \E c \in UploadConns : WsSend(c)
    \/ \E c \in UploadConns : WsDisconnect(c)
    \/ PostTranscribe
    \/ UploadAudio

SpecUpload == Init /\ [][UploadNext]_vars

-----------------------------------------------------------------------------
(* The ten-fragment scenario: one stream of fragments that each decode to
   0.6 s of audio, with an engine that hears speech in every window *)

\* number of fragments of the scenario
ScenarioChunks == 10

ScenarioConns == {1}

\* two different fragments of 0.6 s (9600 frames at 16 kHz) each
ScenarioFragments ==
    { [id |-> 5, size |-> 960, container |-> "webm", frames |-> 9600],
      [id |-> 6, size |-> 961, container |-> "webm", frames |-> 9600] }

ScenarioEngines == { [raise |-> FALSE, text |-> t] : t \in {" hello world ", "hi"} }

ScenarioReceive(c) ==
    /\ pc[c] = "receive"
    /\ chunk_count < ScenarioChunks
    /\ \E frag \in ScenarioFragments, eng \in ScenarioEngines :
           Process(c, frag, "ok", eng)

ScenarioNext ==
    \/ \E c \in ScenarioConns : WsAccept(c)
    \/ \E c \in ScenarioConns : ScenarioReceive(c)
    \/ \E c \in ScenarioConns : WsSend(c)

SpecScenario == Init /\ [][ScenarioNext]_vars

-----------------------------------------------------------------------------
(* letter_sign_gif_generator.py: LetterSignGifGenerator, and the endpoints of
   main.py that use GIF_GENERATOR.  They share no state with ASR. *)

RECURSIVE Upper(_), Lower(_), BeforeDot(_), JoinComma(_), FilterAvailable(_, _)

\* str.upper and str.lower on the characters used here
LowerCase == "abcdefghijklmnopqrstuvwxyz"
UpperCase == "ABCDEFGHIJKLMNOPQRSTUVWXYZ"
Char(s, i) == SubSeq(s, i, i)
IndexIn(alphabet, ch) ==
    IF \E i \in 1..Len(alphabet) : Char(alphabet, i) = ch
    THEN CHOOSE i \in 1..Len(alphabet) : Char(alphabet, i) = ch
    ELSE 0
UpperMap == [ch \in { Char(LowerCase, i) : i \in 1..Len(LowerCase) } |->
                 Char(UpperCase, IndexIn(LowerCase, ch))]
LowerMap == [ch \in { Char(UpperCase, i) : i \in 1..Len(UpperCase) } |->
                 Char(LowerCase, IndexIn(UpperCase, ch))]
UpperChar(ch) == IF ch \in DOMAIN UpperMap THEN UpperMap[ch] ELSE ch
LowerChar(ch) == IF ch \in DOMAIN LowerMap THEN LowerMap[ch] ELSE ch
Upper(s) == IF s = "" THEN "" ELSE UpperChar(Char(s, 1)) \o Upper(SubSeq(s, 2, Len(s)))
Lower(s) == IF s = "" THEN "" ELSE LowerChar(Char(s, 1)) \o Lower(SubSeq(s, 2, Len(s)))
EndsWith(s, suffix) ==
    Len(s) >= Len(suffix) /\ SubSeq(s, Len(s) - Len(suffix) + 1, Len(s)) = suffix
\* filename.split('.')[0]
BeforeDot(s) ==
    IF s = "" \/ Char(s, 1) = "." THEN "" ELSE Char(s, 1) \o BeforeDot(SubSeq(s, 2, Len(s)))
\* list(text)
Chars(s) == [i \in 1..Len(s) |-> Char(s, i)]
\* ', '.join(list)
JoinComma(l) ==
    IF l = <<>> THEN "" ELSE IF Len(l) = 1 THEN l[1] ELSE l[1] \o ", " \o JoinComma(Tail(l))

\* letter_sign_gif_generator.py:42
image_extensions == {".png", ".jpg", ".jpeg", ".gif", ".bmp"}
IsImage(filename) == \E ext \in image_extensions : EndsWith(Lower(filename), ext)
LetterOf(filename) == Upper(BeforeDot(filename))

\* _scan_letter_images, letter_sign_gif_generator.py:33-54: the dict built
\* from os.listdir.  When two image files give the same letter the later one
\* in the listing wins, and the order of the listing is arbitrary.
scan_letter_images(files) ==
    LET images == { f \in files : IsImage(f) }
        letters == { LetterOf(f) : f \in images }
    IN  { d \in [letters -> images] : \A l \in letters : LetterOf(d[l]) = l }

\* letter_sign_gif_generator.py:109-110; duration_per_letter is counted in
\* hundredths of a second
fps == 10
frames_per_letter(duration) == (duration * fps) \div 100

\* letter_sign_gif_generator.py:22 and :105: the name holds the time in seconds
output_dir == "./"
GifName(t) == "sign_" \o ToString(t) \o ".gif"

\* what can happen while the frames are made and saved: nothing, a letter
\* file that PIL cannot open, or imageio.mimsave failing
GifEnvs == {"ok", "badimage", "diskfull"}

CountWhere(l, Keep(_)) == Len(SelectSeq(l, Keep))

\* _create_letter_gif, letter_sign_gif_generator.py:102-164: the path of the
\* GIF written, or "" for None
create_letter_gif(avail, letters, duration, env, t) ==
    LET Shown(l) == l = " " \/ (l \in DOMAIN avail /\ env # "badimage")
        frames == CountWhere(letters, Shown) * frames_per_letter(duration)
    IN  IF frames > 0 /\ env # "diskfull" THEN output_dir \o GifName(t) ELSE ""

\* sorted(self.available_letters.keys()), letter_sign_gif_generator.py:78 and
\* :95: the keys in code-point order.  The keys of the model are single
\* upper-case letters, whose code-point order is the order of the alphabet.
SortedKeys(avail) ==
    LET IsKey(ch) == ch \in DOMAIN avail
    IN  SelectSeq(Chars(UpperCase), IsKey)

\* a generator that leaves out the letters it has no image for instead of
\* refusing the text
GeneratorTextToGif_PartialGif(avail, text, duration, env, t) ==
    LET upper == Strip(Upper(text))
        Known(l) == l \in DOMAIN avail \/ l = " "
        NotSpace(l) == l # " "
        letters == SelectSeq(Chars(upper), Known)
        gif_path == create_letter_gif(avail, letters, duration, env, t)
    IN  IF gif_path = ""
        THEN [error |-> "Failed to create GIF"]
        ELSE [success |-> TRUE, gif_path |-> gif_path, filename |-> GifName(t),
              text |-> upper, letters |-> letters,
              duration |-> CountWhere(letters, NotSpace) * duration]

\* LetterSignGifGenerator.text_to_gif, letter_sign_gif_generator.py:56-100
GeneratorTextToGif(avail, text, duration, env, t) ==
    LET upper == Strip(Upper(text))
        letters == Chars(upper)
        Missing(l) == l \notin DOMAIN avail /\ l # " "
        NotSpace(l) == l # " "
        missing_letters == SelectSeq(letters, Missing)
        gif_path == create_letter_gif(avail, letters, duration, env, t)
    IN  IF missing_letters # <<>>
        THEN [error |-> "Missing letter images: " \o JoinComma(missing_letters),
              available |-> SortedKeys(avail)]
        ELSE IF gif_path = ""
        THEN [error |-> "Failed to create GIF"]
        ELSE [success |-> TRUE, gif_path |-> gif_path, filename |-> GifName(t),
              text |-> upper, letters |-> letters,
              duration |-> CountWhere(letters, NotSpace) * duration]

IsSuccess(result) == "success" \in DOMAIN result

\* the files on disk after a call of the generator that returned `result`:
\* the relative path is resolved in the working directory
DiskAfter(result) ==
    IF IsSuccess(result)
    THEN gifs_on_disk \cup { [dir |-> cwd, name |-> result.filename] }
    ELSE gifs_on_disk

\* Bounds and inputs of the letter endpoints
\* the latest second at which a request arrives
MaxClock == 1
FileNames == {"A.png", "a.JPG", "B.gif", "notes.txt"}
GifTexts == {"", "  ", "ab", "a b", "z"}
Durations == {5, 50}
LetterInputs == {"a", "B", "z"}
WorkDirs == {ServerDir, "/tmp"}
\* main.py:250
GifDir == "/tmp"

\* main.py:204
FilterAvailable_Unfiltered(avail, text_upper) == text_upper
FilterAvailable(avail, text_upper) ==
    IF text_upper = "" THEN ""
    ELSE (IF Char(text_upper, 1) \in DOMAIN avail \/ Char(text_upper, 1) = " "
          THEN Char(text_upper, 1) ELSE "")
         \o FilterAvailable(avail, SubSeq(text_upper, 2, Len(text_upper)))

\* the answer of POST /text-to-gif when the generator is not called
Refused(text, error) ==
    [endpoint |-> "text-to-gif", text |-> text, called |-> FALSE, handed |-> "",
     result |-> [error |-> error], success |-> FALSE, error |-> error]

\* main.py:178-238: POST /text-to-gif.  `handed` is the text given to the
\* generator and `result` what the generator returned.
TextToGif ==
    \E text \in GifTexts, duration \in Durations, env \in GifEnvs :
    \E filtered_text \in { FilterAvailable(available_letters, Upper(text)) } :
        IF Strip(text) = ""
        THEN /\ response' = Refused(text, "Text is required")
             /\ UNCHANGED <<asrVars, genVars>>
        ELSE IF DOMAIN available_letters = {}
        THEN /\ response' = Refused(text, "No letter images available")
             /\ UNCHANGED <<asrVars, genVars>>
        ELSE IF Strip(filtered_text) = ""
        THEN /\ response' = Refused(text, "No matching letters found")
             /\ UNCHANGED <<asrVars, genVars>>
        ELSE \E result \in { GeneratorTextToGif(available_letters, filtered_text,
                                                duration, env, now) } :
             /\ response' =
                    [endpoint |-> "text-to-gif", text |-> text, called |-> TRUE,
                     handed |-> filtered_text, result |-> result,
                     success |-> IsSuccess(result),
                     error |-> IF IsSuccess(result) THEN "" ELSE result.error,
                     overwrote |-> /\ IsSuccess(result)
                                   /\ [dir |-> cwd, name |-> GifName(now)]
                                          \in gifs_on_disk]
             /\ gifs_on_disk' = DiskAfter(result)
             /\ issued' = IF IsSuccess(result) THEN issued \cup {result.filename}
                          ELSE issued
             /\ UNCHANGED <<asrVars, letters_dir, available_letters, cwd, now>>

\* main.py:240-257: GET /gif/{filename}
GetGif ==
    \E filename \in issued \cup {"sign_none.gif"} :
        /\ response' =
               [endpoint |-> "gif", filename |-> filename,
                found |-> [dir |-> GifDir, name |-> filename] \in gifs_on_disk]
        /\ UNCHANGED <<asrVars, genVars>>

\* main.py:279-322: POST /upload-letters
UploadLetters ==
    \E files \in SUBSET FileNames :
        /\ files # {}
        /\ letters_dir' = letters_dir \cup files
        /\ available_letters' \in scan_letter_images(letters_dir')
        /\ response' =
               [endpoint |-> "upload-letters", success |-> TRUE, uploaded |-> files,
                total_available |-> Cardinality(DOMAIN available_letters'),
                available |-> DOMAIN available_letters']
        /\ UNCHANGED <<asrVars, gifs_on_disk, cwd, now, issued>>

\* main.py:294-308 and :320-322: POST /upload-letters when reading or writing
\* one of the files raises (a name with a directory that does not exist, a
\* full disk): the files before it are written, the handler answers the
\* error with status 400 and the rescan of line 311 is not reached.
UploadLettersFails ==
    \E files \in SUBSET FileNames :
    \E written \in SUBSET files :
        /\ written # files
        /\ letters_dir' = letters_dir \cup written
        /\ response' =
               [endpoint |-> "upload-letters", success |-> FALSE, uploaded |-> written,
                total_available |-> Cardinality(DOMAIN available_letters),
                available |-> DOMAIN available_letters]
        /\ UNCHANGED <<asrVars, available_letters, gifs_on_disk, cwd, now, issued>>

\* main.py:324-357: DELETE /delete-letter/{letter}.  `before` is the set of
\* available letters when the request arrived.
DeleteLetter ==
    \E input \in LetterInputs :
    \E letter \in { Upper(input) } :
        IF letter \notin DOMAIN available_letters
        THEN /\ response' =
                    [endpoint |-> "delete-letter", success |-> FALSE, deleted |-> letter,
                     remaining |-> Cardinality(DOMAIN available_letters),
                     available |-> DOMAIN available_letters,
                     before |-> DOMAIN available_letters]
             /\ UNCHANGED <<asrVars, genVars>>
        ELSE /\ letters_dir' = letters_dir \ { available_letters[letter] }
             /\ available_letters' \in scan_letter_images(letters_dir')
             /\ response' =
                    [endpoint |-> "delete-letter", success |-> TRUE, deleted |-> letter,
                     remaining |-> Cardinality(DOMAIN available_letters'),
                     available |-> DOMAIN available_letters',
                     before |-> DOMAIN available_letters]
             /\ UNCHANGED <<asrVars, gifs_on_disk, cwd, now, issued>>

\* the longest list of texts in one POST /batch-text-to-gif request
MaxBatch == 2
BatchTextSet == {"ab", "a z"}
BatchTexts == UNION { [1..n -> BatchTextSet] : n \in 0..MaxBatch }

\* one round of the loop of batch_text_to_gif (main.py:393-397): the entry for
\* `text`, for which the generator returned `result`, when the files `disk`
\* exist.  An entry holds the text, the result, whether the call wrote a file
\* (letter_sign_gif_generator.py:155) and whether that file already existed.
BatchEntry(text, result, disk) ==
    [input |-> text, result |-> result, wrote |-> IsSuccess(result),
     overwrote |-> /\ IsSuccess(result)
                   /\ [dir |-> cwd, name |-> result.filename] \in disk]

\* the files after the round that made `entry`
DiskWith(disk, entry) ==
    IF entry.wrote THEN disk \cup { [dir |-> cwd, name |-> entry.result.filename] }
    ELSE disk

\* main.py:390-397: the loop of batch_text_to_gif over `texts`, run after the
\* rounds that made the entries `done` and left the files `disk`.  The calls
\* of one request fall in the same second t.
RECURSIVE RunBatch(_, _, _, _, _, _, _)
RunBatch(avail, texts, duration, env, t, disk, done) ==
    IF texts = <<>> THEN [results |-> done, disk |-> disk]
    ELSE LET entry == BatchEntry(Head(texts),
                                 GeneratorTextToGif(avail, Head(texts), duration,
                                                    env, t),
                                 disk)
         IN  RunBatch(avail, Tail(texts), duration, env, t,
                      DiskWith(disk, entry), Append(done, entry))

\* main.py:361-407: POST /batch-text-to-gif
BatchTextToGif ==
    \E texts \in BatchTexts, duration \in Durations, env \in GifEnvs :
        IF texts = <<>>
        THEN /\ response' = [endpoint |-> "batch-text-to-gif", success |-> FALSE,
                             error |-> "No texts provided", results |-> <<>>]
             /\ UNCHANGED <<asrVars, genVars>>
        ELSE \E run \in { RunBatch(available_letters, texts, duration, env, now,
                                   gifs_on_disk, <<>>) } :
             /\ response' = [endpoint |-> "batch-text-to-gif", success |-> TRUE,
                             error |-> "", results |-> run.results]
             /\ gifs_on_disk' = run.disk
             /\ issued' = issued \cup
                    { run.results[i].result.filename :
                        i \in { j \in 1..Len(texts) : run.results[j].wrote } }
             /\ UNCHANGED <<asrVars, letters_dir, available_letters, cwd, now>>

\* a second passes
Tick ==
    /\ now < MaxClock
    /\ now' = now + 1
    /\ UNCHANGED <<asrVars, letters_dir, available_letters, gifs_on_disk, cwd,
                   issued, response>>

\* main.py:20-22, :36 and letter_sign_gif_generator.py:18-31: the server
\* starts in some directory, with whatever the letter_signs directory holds
InitLetters ==
    /\ InitAsr
    /\ letters_dir \in SUBSET FileNames
    /\ available_letters \in scan_letter_images(letters_dir)
    /\ gifs_on_disk = {}
    /\ cwd \in WorkDirs
    /\ now = 0
    /\ issued = {}

LettersNext ==
    \/ TextToGif
    \/ GetGif
    \/ UploadLetters
    \/ DeleteLetter
    \/ Tick

SpecLetters == InitLetters /\ [][LettersNext]_vars

\* The requests that generate GIFs, over a letter directory that
\* does not change
GifsNext ==
    \/ TextToGif
    \/ BatchTextToGif
    \/ Tick

\* main.py:20-22, :36 and letter_sign_gif_generator.py:18-31: the server
\* starts with a letter directory in which every letter has one image
InitGifs ==
    /\ InitAsr
    /\ letters_dir \in SUBSET {"A.png", "B.gif"}
    /\ available_letters \in scan_letter_images(letters_dir)
    /\ gifs_on_disk = {}
    /\ cwd \in WorkDirs
    /\ now = 0
    /\ issued = {}

SpecGifs == InitGifs /\ [][GifsNext]_vars

\* The requests that change the letter directory, with the uploads that fail
LetterFilesNext ==
    \/ UploadLetters
    \/ UploadLettersFails
    \/ DeleteLetter

SpecLetterFiles == InitLetters /\ [][LetterFilesNext]_vars

-----------------------------------------------------------------------------
(* The engine call as an interval: the same program with the call of
   model.transcribe (asr.py:137-142) split into its beginning and its end,
   to see what the event loop can run in between *)

Callers == Conns \cup {Http}

\* websocket_endpoint and transcribe are coroutines (main.py:40, :73) of one
\* event loop, and model.transcribe is an ordinary call, not awaited and not
\* handed to an executor (asr.py:137): no other handler runs until it
\* returns.  LoopFree_Offloaded is the loop of a program that runs the
\* engine off the loop.
LoopFree_Offloaded == TRUE
LoopFree == inflight = <<>>

\* the scratch files when a push by `caller` starts: POST /transcribe has
\* already decoded the body once (main.py:97)
FilesAtPush(caller, frag, env1) ==
    IF caller = Http THEN decode_audio(frag, env1, scratch).files ELSE scratch

CanPush(caller) == caller \in Conns => pc[caller] = "receive"

\* a push that does not reach the engine: asr.py:29-57 in one piece
EngPush(caller) ==
    /\ LoopFree
    /\ CanPush(caller)
    /\ chunk_count < MaxChunks
    /\ \E frag \in Fragments, env1 \in DecodeEnvs, env \in DecodeEnvs :
       \E files \in { FilesAtPush(caller, frag, env1) } :
       \E r \in { push_audio_chunk_and_get_events(
                      audio_buffer, chunk_count, files, frag, env, NoCall.eng) } :
           /\ frag.size > 0
           /\ r.engine = <<>>
           /\ Pushed(caller, frag, r, NoCall.eng)
           /\ IF caller = Http THEN UNCHANGED <<pc, outbox>>
              ELSE /\ outbox' = [outbox EXCEPT ![caller] = r.events]
                   /\ pc' = [pc EXCEPT ![caller] =
                                IF r.events = <<>> THEN "receive" ELSE "send"]
           /\ UNCHANGED <<inflight, decoding, genVars, response>>

\* asr.py:43-53 and :128-137: the fragment is decoded and appended, the
\* threshold is reached and model.transcribe is entered with the buffer
EngStart(caller) ==
    /\ LoopFree
    /\ CanPush(caller)
    /\ chunk_count < MaxChunks
    /\ \E frag \in Fragments, env1 \in DecodeEnvs, env \in DecodeEnvs :
       \E files \in { FilesAtPush(caller, frag, env1) } :
       \E d \in { decode_audio(frag, env, files) } :
           /\ frag.size > 0
           /\ d.result.ok
           /\ FlushDue(Concatenate(audio_buffer, d.result.samples))
           /\ audio_buffer' = Concatenate(audio_buffer, d.result.samples)
           /\ chunk_count' = chunk_count + 1
           /\ scratch' = d.files
           /\ arrivals' = Append(arrivals, d.result.samples)
           /\ inflight' = Append(inflight,
                  [caller |-> caller, frag |-> frag, env |-> env,
                   input |-> EngineInput(audio_buffer'),
                   bufBefore |-> audio_buffer, countBefore |-> chunk_count,
                   filesBefore |-> files, arrivalsBefore |-> arrivals])
           /\ pc' = IF caller = Http THEN pc
                    ELSE [pc EXCEPT ![caller] = "transcribing"]
           /\ UNCHANGED <<outbox, last, decoding, genVars, response>>

\* asr.py:137-157 and main.py:55-58: model.transcribe returns or raises, the
\* buffer is emptied unless it raised, and the events go to the caller
EngFinish ==
    /\ inflight # <<>>
    /\ \E eng \in EngineOutcomes :
       \E h \in { Head(inflight) } :
       \E r \in { push_audio_chunk_and_get_events(
                      h.bufBefore, h.countBefore, h.filesBefore, h.frag, h.env, eng) } :
       \E t \in { transcribe_buffer(audio_buffer, eng) } :
           /\ audio_buffer' = t.audio_buffer
           /\ arrivals' = IF t.audio_buffer = <<>> THEN <<>> ELSE arrivals
           /\ last' = [CallRecord(h.caller, h.frag, r, eng) EXCEPT
                           !.bufBefore = h.bufBefore,
                           !.countBefore = h.countBefore,
                           !.arrivalsBefore = h.arrivalsBefore]
           /\ inflight' = Tail(inflight)
           /\ IF h.caller = Http THEN UNCHANGED <<pc, outbox>>
              ELSE /\ outbox' = [outbox EXCEPT ![h.caller] = t.events]
                   /\ pc' = [pc EXCEPT ![h.caller] =
                                IF t.events = <<>> THEN "receive" ELSE "send"]
           /\ UNCHANGED <<chunk_count, scratch, decoding, genVars, response>>

EngAccept(c) == LoopFree /\ WsAccept(c)
EngSend(c) == LoopFree /\ WsSend(c)
EngDisconnect(c) == LoopFree /\ WsDisconnect(c)

EngineNext ==
    \/ \E c \in Conns : EngAccept(c)
    \/ \E caller \in Callers : EngPush(caller)
    \/ \E caller \in Callers : EngStart(caller)
    \/ EngFinish
    \/ \E c \in Conns : EngSend(c)
    \/ \E c \in Conns : EngDisconnect(c)

SpecEngine == Init /\ [][EngineNext]_vars

-----------------------------------------------------------------------------
(* The decode as an interval: the same program with _decode_audio
   (asr.py:63-99) split at the write of /tmp/audio_chunk.webm, to see what
   the event loop can run before the transcoded file is read back *)

FragmentById(id) == CHOOSE f \in Fragments : f.id = id

\* _decode_audio is a coroutine without an await: open, subprocess.run and
\* read are ordinary blocking calls (asr.py:68-91), so the event loop runs
\* no other handler between the write and the read.  DecodeFree_Offloaded is
\* the loop of a program that awaits the transcoder.
DecodeFree_Offloaded == TRUE
DecodeFree == decoding = <<>>

RemoveAt(q, i) == SubSeq(q, 1, i - 1) \o SubSeq(q, i + 1, Len(q))

\* asr.py:39-40 and :67-69: the fragment is counted and written to the
\* scratch file.  POST /transcribe first decodes the body outside the push
\* (main.py:97, kind "probe").
DecStart(caller) ==
    /\ DecodeFree
    /\ CanPush(caller)
    /\ chunk_count < MaxChunks
    /\ \E frag \in Fragments, kind \in {"probe", "push"} :
           /\ frag.size > 0
           /\ kind = IF caller = Http THEN "probe" ELSE "push"
           /\ scratch' = [scratch EXCEPT !.webm = frag.id]
           /\ chunk_count' = IF kind = "push" THEN chunk_count + 1 ELSE chunk_count
           /\ decoding' = Append(decoding,
                  [caller |-> caller, frag |-> frag, kind |-> kind,
                   bufBefore |-> audio_buffer, countBefore |-> chunk_count,
                   arrivalsBefore |-> arrivals])
           /\ pc' = IF caller = Http THEN pc
                    ELSE [pc EXCEPT ![caller] = "decoding"]
           /\ UNCHANGED <<audio_buffer, outbox, arrivals, last, inflight, genVars, response>>

\* asr.py:75-99: the transcoder runs on what the scratch file holds now and
\* the WAV file is read back.  The decode of main.py:97 ends there and its
\* result is dropped; a push goes on with asr.py:45-57 and main.py:55-58.
DecFinish ==
    \E i \in 1..Len(decoding), env \in DecodeEnvs, eng \in EngineOutcomes :
    \E h \in { decoding[i] } :
    \E d \in { decode_audio(FragmentById(scratch.webm), env, scratch) } :
        IF h.kind = "probe"
        THEN /\ eng = NoCall.eng
             /\ scratch' = d.files
             /\ decoding' = [decoding EXCEPT ![i].kind = "probed"]
             /\ UNCHANGED <<audio_buffer, chunk_count, pc, outbox, arrivals,
                            last, inflight, genVars, response>>
        ELSE IF h.kind = "probed" THEN FALSE
        ELSE \E t \in { AfterDecode(audio_buffer, chunk_count, d.result, eng) } :
             \E r \in { [events |-> t.events, audio_buffer |-> t.audio_buffer,
                         chunk_count |-> chunk_count, files |-> d.files,
                         decodes |-> 1, decoded |-> d.result, engine |-> t.engine,
                         status |-> d.status, raised |-> FALSE] } :
                 /\ t.engine = <<>> => eng = NoCall.eng
                 /\ audio_buffer' = r.audio_buffer
                 /\ scratch' = d.files
                 /\ arrivals' = ArrivalsAfter(r)
                 /\ last' = [CallRecord(h.caller, h.frag, r, eng) EXCEPT
                                 !.bufBefore = h.bufBefore,
                                 !.countBefore = h.countBefore,
                                 !.arrivalsBefore = h.arrivalsBefore]
                 /\ decoding' = RemoveAt(decoding, i)
                 /\ IF h.caller = Http THEN UNCHANGED <<pc, outbox>>
                    ELSE /\ outbox' = [outbox EXCEPT ![h.caller] = r.events]
                         /\ pc' = [pc EXCEPT ![h.caller] =
                                      IF r.events = <<>> THEN "receive" ELSE "send"]
                 /\ UNCHANGED <<chunk_count, inflight, genVars, response>>

\* main.py:109 with asr.py:39-40 and :67-69: the POST request goes on to the
\* push, which counts the body and writes it to the scratch file again
DecPush ==
    \E i \in 1..Len(decoding) :
        /\ decoding[i].kind = "probed"
        /\ scratch' = [scratch EXCEPT !.webm = decoding[i].frag.id]
        /\ chunk_count' = chunk_count + 1
        /\ decoding' = [decoding EXCEPT ![i].kind = "push",
                                        ![i].bufBefore = audio_buffer,
                                        ![i].countBefore = chunk_count,
                                        ![i].arrivalsBefore = arrivals]
        /\ UNCHANGED <<audio_buffer, pc, outbox, arrivals, last, inflight, genVars, response>>

DecAccept(c) == DecodeFree /\ WsAccept(c)
DecSend(c) == DecodeFree /\ WsSend(c)
DecDisconnect(c) == DecodeFree /\ WsDisconnect(c)

DecodeNext ==
    \/ \E c \in Conns : DecAccept(c)
    \/ \E caller \in Callers : DecStart(caller)
    \/ DecFinish
    \/ DecPush
    \/ \E c \in Conns : DecSend(c)
    \/ \E c \in Conns : DecDisconnect(c)

SpecDecode == Init /\ [][DecodeNext]_vars

-----------------------------------------------------------------------------
(* What the last call of push_audio_chunk_and_get_events did *)

Returned == last.caller # -1
EngineCalled == Returned /\ last.engine # <<>>
EngineRaised == EngineCalled /\ last.eng.raise
EngineReturned == EngineCalled /\ ~last.eng.raise
\* the buffer length right after np.concatenate in the last call
AppendedLen == BufLen(last.bufBefore) + BufLen(last.decoded.samples)

\* t is s without its leading and trailing spaces
IsStripOf(t, s) ==
    /\ \E i \in 0..Len(s) : \E j \in 0..Len(s) : s = Rep(" ", i) \o t \o Rep(" ", j)
    /\ t # "" => (SubSeq(t, 1, 1) # " " /\ SubSeq(t, Len(t), Len(t)) # " ")

-----------------------------------------------------------------------------
(* Claims *)

\* C1: after a call in which the engine was invoked and raised, the audio
\* buffer is empty.
C1_BufferEmptyAfterEngineFailure == EngineRaised => audio_buffer = <<>>

\* C2: after a call in which the engine was invoked and returned a result
\* (text or empty text), the audio buffer is completely empty.
C2_BufferEmptyAfterEngineResult ==
    EngineReturned => (audio_buffer = <<>> /\ BufLen(audio_buffer) = 0)

C2_Witness ==
    /\ EngineReturned
    /\ last.eng.text = "  "
    /\ BufLen(last.engine[1]) >= 80000

\* C3: whenever a call has returned, the buffer is shorter than the flush
\* threshold of 80000 samples, whatever the engine did.
C3_BufferBelowThresholdAfterCall == Returned => BufLen(audio_buffer) < 80000

\* C4: a fragment submitted by one caller (a connection, or POST
\* /transcribe) changes neither the buffer nor the fragment count of
\* another, open connection.
C4_StreamsIndependent ==
    [][\A c \in Conns :
          (pc[c] # "closed" /\ last'.caller # c)
              => (BufferOf(c)' = BufferOf(c) /\ CountOf(c)' = CountOf(c))]_vars

\* C5: in one call the engine is invoked at most once, and it is invoked
\* exactly when the fragment is non-empty, its decode succeeded and the
\* buffer after the append holds at least 80000 samples.
C5_EngineInvokedIffThresholdReached ==
    Returned =>
        /\ Len(last.engine) <= 1
        /\ Len(last.engine) = 1 <=>
               (last.size > 0 /\ last.decoded.ok /\ AppendedLen >= 80000)

C5_Witness ==
    /\ EngineCalled
    /\ last.bufBefore # <<>>
    /\ AppendedLen = 80000

\* C6: the engine's input is the concatenation, in arrival order, of the
\* decoded samples of every successfully decoded fragment since the buffer
\* was last empty, the triggering fragment's samples included in full.
C6_EngineInputIsWholeWindow ==
    EngineCalled =>
        last.engine[1] = Flatten(Append(last.arrivalsBefore, last.decoded.samples))

C6_Witness ==
    /\ EngineCalled
    /\ Len(last.arrivalsBefore) >= 1
    /\ Len(last.engine[1]) >= 2
    /\ last.engine[1][1].src # last.engine[1][2].src
    /\ BufLen(last.engine[1]) > 80000

\* C7: for an empty fragment the call returns no event and changes nothing:
\* buffer and fragment counter are as before, neither the decoder nor the
\* engine is invoked.
C7_EmptyFragmentIsNoOp ==
    (Returned /\ last.size = 0) =>
        /\ last.events = <<>>
        /\ audio_buffer = last.bufBefore
        /\ chunk_count = last.countBefore
        /\ last.decodes = 0
        /\ last.engine = <<>>

C7_Witness ==
    /\ Returned
    /\ last.size = 0
    /\ audio_buffer # <<>>
    /\ chunk_count > 0

\* C8: for a non-empty fragment whose decode yields no samples the call
\* emits exactly one interim event with the generic processing message,
\* leaves the buffer as it was and does not invoke the engine.
C8_DecodeFailureKeepsBuffer ==
    (Returned /\ last.size > 0 /\ ~last.decoded.ok) =>
        /\ last.events = << [type |-> "interim", text |-> "Processing audio..."] >>
        /\ audio_buffer = last.bufBefore
        /\ last.engine = <<>>

C8_Witness ==
    /\ Returned
    /\ last.size > 0
    /\ ~last.decoded.ok
    /\ BufLen(last.bufBefore) >= 80000

\* C9: when the engine returns, a text that is non-empty after stripping
\* gives exactly one final event carrying that text, and an empty one gives
\* exactly one interim no-speech event and no final event.
C9_FlushOutcomeMapping ==
    EngineReturned =>
        /\ Len(last.events) = 1
        /\ IF IsStripOf("", last.eng.text)
           THEN last.events[1] = [type |-> "interim", text |-> "No speech detected"]
           ELSE /\ last.events[1].type = "final"
                /\ IsStripOf(last.events[1].text, last.eng.text)

C9_Witness ==
    /\ EngineReturned
    /\ last.eng.text = " hello world "
    /\ last.events = << [type |-> "final", text |-> "hello world"] >>

\* C10: when the engine call fails the call still returns, with exactly one
\* event, of type interim, whose error description is a prefix of at most
\* 100 characters of the failure's message.
C10_EngineFailureEvent ==
    EngineRaised =>
        /\ Len(last.events) = 1
        /\ last.events[1].type = "interim"
        /\ \E k \in 0..100 :
               last.events[1].text = "Transcription error: " \o SubSeq(last.eng.text, 1, k)

C10_Witness ==
    /\ EngineRaised
    /\ Len(last.eng.text) > 100
    /\ Len(last.events) = 1

\* some event of the last call is a final event
FinalEmitted == \E i \in 1..Len(last.events) : last.events[i].type = "final"

\* C11: a final event is emitted only by a call in which the engine was
\* invoked and returned text that is not empty after stripping; a silent
\* window or a buffer that stays below the threshold never gives one.
C11_FinalOnlyFromSpeech ==
    Returned =>
        /\ FinalEmitted => (EngineReturned /\ ~IsStripOf("", last.eng.text))
        /\ (EngineReturned /\ IsStripOf("", last.eng.text)) => ~FinalEmitted
        /\ AppendedLen < 80000 => ~FinalEmitted

C11_Witness ==
    /\ EngineReturned
    /\ last.eng.text = ""
    /\ last.events[1].type = "interim"
    /\ AppendedLen > 80000

\* C12: the pipeline always returns from Flushing to Accumulating with an
\* empty buffer: every call that invokes the engine, whatever the engine
\* does, leaves the buffer empty, so no window stays in the buffer forever.
C12_FlushAlwaysResetsBuffer ==
    [][(last' # last /\ last'.engine # <<>>) => audio_buffer' = <<>>]_vars

\* C16: a fragment that decodes and leaves the buffer below the threshold
\* gives exactly one interim event reporting the number of non-empty
\* fragments submitted to the processor since it was created.
C16_ListeningReportsFragmentCount ==
    (Returned /\ last.size > 0 /\ last.decoded.ok /\ AppendedLen < 80000) =>
        /\ last.events =
               << [type |-> "interim",
                   text |-> "Listening... (" \o ToString(last.nth) \o " chunks)"] >>
        /\ chunk_count = last.nth

C16_Witness ==
    /\ Returned
    /\ last.decoded.ok
    /\ last.nth = 2
    /\ last.bufBefore = <<>>
    /\ last.events = << [type |-> "interim", text |-> "Listening... (2 chunks)"] >>

\* C17: every call returns at most one event, on every path.
C17_AtMostOneEvent ==
    /\ Returned => Len(last.events) <= 1
    /\ \A c \in Conns : Len(outbox[c]) <= 1

C17_Witness ==
    /\ last.caller = Http
    /\ FinalEmitted
    /\ Len(last.events) = 1

\* C19: a decode that runs into its timeout is a decode failure: no samples,
\* one interim processing event, buffer unchanged, no exception leaves the
\* call, and a connection that made the call stays open for its next
\* fragment.
C19_TimeoutIsDecodeFailure ==
    (Returned /\ last.status = "timeout") =>
        /\ ~last.decoded.ok
        /\ last.events = << [type |-> "interim", text |-> "Processing audio..."] >>
        /\ audio_buffer = last.bufBefore
        /\ ~last.raised
        /\ \A c \in Conns :
               (last.caller = c /\ outbox[c] # <<>>) => pc[c] = "send"

C19_Witness ==
    /\ Returned
    /\ last.status = "timeout"
    /\ last.frag = 3
    /\ last.bufBefore # <<>>
    /\ scratch.wav = NoWav

\* C13 as claimed: after the 9th fragment of the scenario the buffer is
\* still below the threshold and no final event has been emitted; the 10th
\* fragment yields the final event and leaves the buffer empty.
C13_FinalAtTenthFragment ==
    /\ (Returned /\ chunk_count <= 9)
           => (BufLen(audio_buffer) < 80000 /\ ~FinalEmitted /\ Len(last.events) = 1)
    /\ (Returned /\ chunk_count = 10)
           => (FinalEmitted /\ Len(last.events) = 1 /\ last.events[1].text # ""
               /\ audio_buffer = <<>>)

\* C13 as amended: 9 * 9600 = 86400 >= 80000, so the buffer is below the
\* threshold with interim events only up to the 8th fragment, the 9th
\* fragment yields the one final event with non-empty text and leaves the
\* buffer empty, and the 10th starts a new window with an interim event.
C13_FinalAtNinthFragment ==
    /\ (Returned /\ chunk_count <= 8)
           => /\ BufLen(audio_buffer) = 9600 * chunk_count
              /\ BufLen(audio_buffer) < 80000
              /\ Len(last.events) = 1
              /\ last.events[1].type = "interim"
    /\ (Returned /\ chunk_count = 9)
           => /\ AppendedLen = 86400
              /\ Len(last.events) = 1
              /\ last.events[1].type = "final"
              /\ last.events[1].text # ""
              /\ audio_buffer = <<>>
    /\ (Returned /\ chunk_count = 10)
           => /\ BufLen(audio_buffer) = 9600
              /\ Len(last.events) = 1
              /\ last.events[1].type = "interim"

C13_Witness ==
    /\ chunk_count = 10
    /\ BufLen(audio_buffer) = 9600
    /\ last.events[1].type = "interim"
    /\ pc[1] = "receive"

\* a step in which connection c's handler runs the push of a fragment
PushStepOf(c) == last' # last /\ last'.caller = c

\* C14: on a connection the next fragment is read and processed only when
\* every event of the previous one has been sent, and events leave the
\* connection's pending list only from its head, one send at a time.
C14_EventsSentBeforeNextFragment ==
    [][\A c \in Conns :
          /\ PushStepOf(c) => (outbox[c] = <<>> /\ outbox'[c] = last'.events)
          /\ (outbox'[c] # outbox[c] /\ ~PushStepOf(c))
                 => (outbox[c] # <<>>
                     /\ (outbox'[c] = Tail(outbox[c]) \/ pc'[c] = "closed"))]_vars

C14_Witness ==
    \E c \in Conns :
        /\ last.caller = c
        /\ last.countBefore = 1
        /\ pc[c] = "receive"
        /\ last.events # <<>>
        /\ outbox[c] = <<>>

\* C15: no exception leaves a call, whatever the transcoder and the engine
\* do, and a connection is closed only by a step that is not the processing
\* of a fragment (a transport-level disconnect or failure).
C15_ErrorsNeverCloseStream ==
    [][/\ ~last'.raised
       /\ \A c \in Conns : (pc[c] # "closed" /\ pc'[c] = "closed") => last' = last]_vars

C15_Witness ==
    \E c \in Conns :
        /\ last.caller = c
        /\ EngineRaised
        /\ pc[c] = "send"
        /\ scratch.wav.valid

C20_EngineCallsSerialized ==
    /\ Len(inflight) <= 1
    /\ inflight # <<>> => audio_buffer = inflight[1].input

\* a call is in progress while another connection is open and waiting for
\* its next message
C20_Witness ==
    /\ inflight # <<>>
    /\ BufLen(inflight[1].input) >= 80000
    /\ \E c \in Conns : c # inflight[1].caller /\ pc[c] = "receive"

\* C21: at most one decode is in flight; from the write of its input to the
\* read of the transcoded file the scratch input still holds its own
\* fragment, and the samples a decode returns come from the fragment it was
\* given, never from another request's.
C21_OneDecodeInFlight ==
    /\ Len(decoding) <= 1
    /\ decoding # <<>> => scratch.webm = decoding[1].frag.id
    /\ (Returned /\ last.decoded.ok) =>
           \A i \in 1..Len(last.decoded.samples) :
               last.decoded.samples[i].src = last.frag

\* a decode is in flight while the scratch files still hold the transcoded
\* audio of a different fragment decoded for another caller
C21_Witness ==
    /\ decoding # <<>>
    /\ decoding[1].kind = "push"
    /\ Returned /\ last.decoded.ok /\ last.decoded.samples # <<>>
    /\ last.caller # decoding[1].caller
    /\ last.frag # decoding[1].frag.id
    /\ scratch.wav.valid /\ scratch.wav.src = last.frag

\* C22: with the same transcoder outcome, decoding a fragment gives the same
\* result whatever the scratch files hold, also when they hold what a first
\* decode of the same fragment left; a decode whose transcoding fails gives
\* no samples, and samples come from the fragment decoded; a decode leaves
\* the buffer and the fragment counter as they were.
C22_DecodeIsPure ==
    /\ \A frag \in Fragments, env \in DecodeEnvs :
           LET first == decode_audio(frag, env, scratch)
               again == decode_audio(frag, env, first.files)
               fresh == decode_audio(frag, env, NoFiles)
           IN  /\ again.result = first.result
               /\ fresh.result = first.result
               /\ first.status # "zero" => first.result = None
               /\ \A i \in 1..Len(first.result.samples) :
                      first.result.samples[i].src = frag.id
    /\ \A i \in 1..Len(decoding) :
           decoding[i].kind = "probed" =>
               /\ audio_buffer = decoding[i].bufBefore
               /\ chunk_count = decoding[i].countBefore

\* the decode of a body that the transcoder rejects has ended while the
\* scratch WAV file still holds audio of an earlier fragment, with audio in
\* the buffer
C22_Witness ==
    /\ decoding # <<>>
    /\ decoding[1].kind = "probed"
    /\ decoding[1].frag.container = "garbage"
    /\ scratch.wav.valid /\ scratch.wav.frames > 0
    /\ audio_buffer # <<>>

IsEvent(e) ==
    /\ DOMAIN e = {"type", "text"}
    /\ e.type \in {"interim", "final", "error"}
    /\ e.text \in STRING

\* C23: every event a call returns, sent or waiting to be sent, is a record
\* of exactly a type and a text, the type being interim, final or error and
\* the text a string.
C23_EventsAreTagged ==
    /\ \A i \in 1..Len(last.events) : IsEvent(last.events[i])
    /\ \A c \in Conns : \A i \in 1..Len(outbox[c]) : IsEvent(outbox[c][i])

\* a final event has just been returned while an interim event of another
\* connection waits to be sent
C23_Witness ==
    /\ Returned
    /\ last.events # <<>> /\ last.events[1].type = "final"
    /\ \E c \in Conns : /\ c # last.caller
                        /\ outbox[c] # <<>>
                        /\ outbox[c][1].type = "interim"

\* C25: a POST /transcribe request with an empty body, made while the shared
\* buffer holds audio, hands that audio to the engine and answers with the
\* text the engine returned.
C25_EmptyPostTranscribesBuffer ==
    (Returned /\ last.caller = Http /\ last.size = 0 /\ last.bufBefore # <<>>) =>
        /\ last.engine = << last.bufBefore >>
        /\ last.events # <<>>

\* C26: the answer to a POST /upload-audio request whose file is not empty
\* and decodes to at least one sample carries the file name and the
\* transcribed text and is not an error answer.
C26_UploadIsTranscribed ==
    (/\ response.endpoint = "upload-audio"
     /\ FragmentById(response.content).size > 0
     /\ decode_audio(FragmentById(response.content), "ok", NoFiles).result.samples # <<>>) =>
        /\ {"filename", "text"} \subseteq DOMAIN response
        /\ "error" \notin DOMAIN response

\* C30: the events of a call reach only the connection that submitted the
\* fragment, each exactly once.  A connection's pending events change only
\* when its own call returns (nothing being pending then), when it sends the
\* first of them, or when the connection ends.
C30_EventsToSubmitterOnce ==
    [][\A c \in Conns :
          outbox'[c] # outbox[c] =>
              \/ PushStepOf(c) /\ outbox[c] = <<>> /\ outbox'[c] = last'.events
              \/ /\ pc[c] = "send" /\ pc'[c] # "closed"
                 /\ outbox'[c] = Tail(outbox[c])
                 /\ last' = last
              \/ pc'[c] = "closed" /\ outbox'[c] = <<>>]_vars

\* two connections each hold an event of their own fragment, not yet sent
C30_Witness ==
    /\ \A c \in Conns : pc[c] = "send" /\ outbox[c] # <<>>
    /\ \E c, d \in Conns : outbox[c] # outbox[d]

\* C24: what LetterSignGifGenerator.text_to_gif returns is a success
\* descriptor with the GIF's path and file name, or an error descriptor with
\* both an error text and the list of available letters.
C24_GeneratorDescriptor ==
    (response.endpoint = "text-to-gif" /\ response.called) =>
        \/ IsSuccess(response.result)
           /\ {"gif_path", "filename"} \subseteq DOMAIN response.result
        \/ {"error", "available"} \subseteq DOMAIN response.result

\* C27: GET /gif/{filename} for a file name that the generator returned in a
\* success descriptor finds the file.
C27_IssuedGifIsServed ==
    (response.endpoint = "gif" /\ response.filename \in issued) => response.found

\* C28: after DELETE /delete-letter/{letter} answers success for a letter
\* that was available, the letter is not available any more and there is
\* exactly one available letter less.
C28_DeletedLetterIsGone ==
    (/\ response.endpoint = "delete-letter"
     /\ response.success
     /\ response.deleted \in response.before) =>
        /\ response.deleted \notin response.available
        /\ response.deleted \notin DOMAIN available_letters
        /\ response.remaining = Cardinality(response.before) - 1

StartsWith(s, prefix) == Len(s) >= Len(prefix) /\ SubSeq(s, 1, Len(prefix)) = prefix
HasAvailableLetter(text) ==
    \E i \in 1..Len(text) : UpperChar(Char(text, i)) \in DOMAIN available_letters
AvailableOrSpace(ch) == ch \in DOMAIN available_letters \/ ch = " "

\* C29: when the text of a POST /text-to-gif request contains an available
\* letter, the generator is called with exactly the available letters and
\* the spaces of the upper-cased text, in their order, and does not answer
\* with a missing-letters error.
C29_OnlyAvailableLettersHanded ==
    (response.endpoint = "text-to-gif" /\ HasAvailableLetter(response.text)) =>
        /\ response.called
        /\ Chars(response.handed) = SelectSeq(Chars(Upper(response.text)), AvailableOrSpace)
        /\ ~IsSuccess(response.result) =>
               ~StartsWith(response.result.error, "Missing letter images")

\* a text with an available and a missing letter was turned into a GIF of
\* the available letter alone
C29_Witness ==
    /\ response.endpoint = "text-to-gif"
    /\ response.text = "ab"
    /\ response.called
    /\ response.handed = "A"
    /\ response.success

C32_ZeroSamplesIsSuccess ==
    (Returned /\ last.size > 0 /\ last.decoded.ok /\ last.decoded.samples = <<>>) =>
        /\ chunk_count = last.countBefore + 1
        /\ last.events # << [type |-> "interim", text |-> "Processing audio..."] >>
        /\ IF BufLen(last.bufBefore) < 80000
           THEN /\ audio_buffer = last.bufBefore
                /\ last.engine = <<>>
                /\ last.events =
                       << [type |-> "interim",
                           text |-> "Listening... (" \o ToString(chunk_count) \o " chunks)"] >>
           ELSE last.engine = << last.bufBefore >>

\* a fragment without samples arrived while the buffer held audio
C32_Witness ==
    /\ Returned /\ last.size > 0
    /\ last.decoded.ok /\ last.decoded.samples = <<>>
    /\ last.bufBefore # <<>>
    /\ audio_buffer = last.bufBefore
    /\ last.nth = 2

\* the generator has no image for some non-space character of the text
HasMissingLetter(text) ==
    LET upper == Strip(Upper(text))
    IN  \E i \in 1..Len(upper) :
            Char(upper, i) # " " /\ Char(upper, i) \notin DOMAIN available_letters
IsSortedKeys(l) ==
    /\ { l[i] : i \in 1..Len(l) } = DOMAIN available_letters
    /\ \A i, j \in 1..Len(l) :
           i < j => IndexIn(UpperCase, l[i]) < IndexIn(UpperCase, l[j])

\* C33: when the generator is given a text with a non-space character that
\* has no letter image, it returns the missing-letters error together with
\* the sorted list of the available letters, and it writes no GIF, not even
\* one of the letters that are available.
C33_MissingLetterRefusesAll ==
    (response.endpoint = "batch-text-to-gif" /\ response.success) =>
        \A i \in 1..Len(response.results) :
            HasMissingLetter(response.results[i].input) =>
                /\ ~IsSuccess(response.results[i].result)
                /\ StartsWith(response.results[i].result.error,
                              "Missing letter images: ")
                /\ IsSortedKeys(response.results[i].result.available)
                /\ ~response.results[i].wrote
                /\ \A f \in gifs_on_disk : f.name \in issued
C33_Witness ==
    /\ response.endpoint = "batch-text-to-gif" /\ response.success
    /\ Len(response.results) = 2
    /\ response.results[1].input = "a z"
    /\ HasMissingLetter("a z")
    /\ DOMAIN available_letters = {"A", "B"}
    /\ response.results[1].result.error = "Missing letter images: Z"
    /\ response.results[2].wrote
    /\ Cardinality(gifs_on_disk) = 1

\* C34: after every POST /upload-letters or DELETE /delete-letter request,
\* whether it answered success or an error, the available letters are a scan
\* of the letter directory: the keys are the upper-cased stems of the image
\* files present and every value is a file of the directory.
C34_AvailableIsScanOfDirectory ==
    response.endpoint \in {"upload-letters", "delete-letter"} =>
        available_letters \in scan_letter_images(letters_dir)

\* C35: every successful call of the generator writes its GIF to a path that
\* no earlier successful call wrote, so the results of one POST
\* /batch-text-to-gif name different files and no GIF returned before is
\* overwritten.
C35_EveryGifHasItsOwnPath ==
    /\ (response.endpoint = "text-to-gif" /\ response.called) =>
           ~response.overwrote
    /\ (response.endpoint = "batch-text-to-gif" /\ response.success) =>
           /\ \A i \in 1..Len(response.results) : ~response.results[i].overwrote
           /\ \A i, j \in 1..Len(response.results) :
                  (/\ i < j
                   /\ response.results[i].wrote
                   /\ response.results[j].wrote) =>
                      response.results[i].result.gif_path
                          # response.results[j].result.gif_path

====
